---- MODULE Spec2Model ----
(***************************************************************************)
(* FANE: FP8 approximate neural-network engine, software reference model.  *)
(*                                                                         *)
(* The module models src/sw: the FP8 codec (utils/Decoder.py), the binary  *)
(* and floating-point adders (utils/Adder.py), the three multipliers       *)
(* (utils/Multiplier.py) and the MAC units and matrix engine (Matmul.py).  *)
(*                                                                         *)
(* Representation.                                                         *)
(*  - A Python str is a sequence of one-character strings, so that the     *)
(*    bit patterns "00011000" and the markers 'pass', 'input pass', ...    *)
(*    live in one type and int(s, 2) can fail on a marker.                 *)
(*  - A Python float is a record [kind, neg, m, e]: kind "fin" is the      *)
(*    dyadic rational (-1)^neg * m * 2^e with m odd (or m = 0, e = 0, the  *)
(*    signed zero); kinds "inf" and "nan" are the IEEE specials.  Every    *)
(*    float the modelled code computes from 8-bit operands has at most 13  *)
(*    significant bits and an exponent within [-40, 40], so binary64       *)
(*    arithmetic on it is exact and the dyadic model is the value the      *)
(*    interpreter computes.                                                *)
(*  - A raised ValueError is the distinguished string ValueError.          *)
(***************************************************************************)
EXTENDS Integers, Sequences, FiniteSets, TLC

VARIABLES
    format,       \* the format identifier the objects were constructed with
    pc,           \* position of the driver
    x,            \* codec driver: the float handed to encode
    a_bin,        \* first operand bit string
    b_bin,        \* second operand bit string
    out,          \* the string returned by the last operation
    alg,          \* which MAC unit / matrix multiply is running
    A,            \* matrix engine: left input matrix (floats)
    B,            \* matrix engine: right input matrix (floats)
    C,            \* matrix engine: result matrix being filled
    i,            \* matrix engine: row index of the current cell
    j,            \* matrix engine: column index of the current cell
    k,            \* reduction index / number of MAC steps done in the chain
    dot_product   \* the accumulator of the current chain

vars == <<format, pc, x, a_bin, b_bin, out, alg, A, B, C, i, j, k, dot_product>>

(***************************************************************************)
(* Python strings                                                          *)
(***************************************************************************)
RECURSIVE Rep(_, _)
\* c * n for a one-character string c
Rep(c, n) == IF n <= 0 THEN <<>> ELSE <<c>> \o Rep(c, n - 1)

\* s[lo:hi] with 0 <= lo, Python slice semantics (clamped to the string)
Slice(s, lo, hi) ==
    LET h == IF hi > Len(s) THEN Len(s) ELSE hi
    IN  IF lo >= h THEN <<>> ELSE SubSeq(s, lo + 1, h)

\* s[::-1]
Reverse(s) == [n \in 1..Len(s) |-> s[Len(s) + 1 - n]]

IsBinary(s) == Len(s) > 0 /\ \A n \in 1..Len(s) : s[n] \in {"0", "1"}

RECURSIVE BinValue(_)
BinValue(s) ==
    IF Len(s) = 0 THEN 0
    ELSE 2 * BinValue(SubSeq(s, 1, Len(s) - 1)) + (IF s[Len(s)] = "1" THEN 1 ELSE 0)

\* int(s, 2); -1 stands for the ValueError int() raises on a non-binary string
ParseBin(s) == IF IsBinary(s) THEN BinValue(s) ELSE -1

RECURSIVE Digits(_)
\* format(n, 'b')
Digits(n) ==
    IF n < 2 THEN <<(IF n = 1 THEN "1" ELSE "0")>>
    ELSE Digits(n \div 2) \o <<(IF n % 2 = 1 THEN "1" ELSE "0")>>

\* format(n, f'0{w}b'): zero-padded to at least w characters
FormatBin(n, w) == LET d == Digits(n) IN Rep("0", w - Len(d)) \o d

\* the failure markers of the MAC units
PASS == <<"p", "a", "s", "s">>
INPUT_PASS == <<"i", "n", "p", "u", "t", " ">> \o PASS
PRODUCT_PASS == <<"p", "r", "o", "d", "u", "c", "t", " ">> \o PASS
ACCUMULATION_PASS ==
    <<"a", "c", "c", "u", "m", "u", "l", "a", "t", "i", "o", "n", " ">> \o PASS

\* the ValueError raised by int(s, 2) on a string that is not binary
ValueError == <<"ValueError">>

(***************************************************************************)
(* Python floats as dyadic rationals                                       *)
(***************************************************************************)
Pow2(n) == 2 ^ n

RECURSIVE BitLength(_)
\* int.bit_length()
BitLength(n) == IF n = 0 THEN 0 ELSE 1 + BitLength(n \div 2)

RECURSIVE TrailingZeros(_)
TrailingZeros(n) == IF n % 2 = 1 THEN 0 ELSE 1 + TrailingZeros(n \div 2)

\* the float (-1)^neg * m * 2^e, in canonical form (m odd, or zero)
Fin(neg, m, e) ==
    IF m = 0 THEN [kind |-> "fin", neg |-> neg, m |-> 0, e |-> 0]
    ELSE LET t == TrailingZeros(m)
         IN  [kind |-> "fin", neg |-> neg, m |-> m \div Pow2(t), e |-> e + t]

Inf(neg) == [kind |-> "inf", neg |-> neg, m |-> 0, e |-> 0]
NaN == [kind |-> "nan", neg |-> FALSE, m |-> 0, e |-> 0]

\* the float of a signed integer numerator n scaled by 2^e
FinSigned(n, e) == IF n < 0 THEN Fin(TRUE, -n, e) ELSE Fin(FALSE, n, e)

\* -v  (unary minus of a float)
Negate(v) == [v EXCEPT !.neg = ~v.neg]

\* math.floor(math.log2(v)) for a finite v > 0
FloorLog2(v) == BitLength(v.m) - 1 + v.e

\* round(m * 2^s): Python 3 rounds halves to the even integer
RoundHalfEven(m, s) ==
    IF s >= 0 THEN m * Pow2(s)
    ELSE LET d == Pow2(-s)
             q == m \div d
             r == m % d
         IN  IF 2 * r < d THEN q
             ELSE IF 2 * r > d THEN q + 1
             ELSE IF q % 2 = 0 THEN q ELSE q + 1

(***************************************************************************)
(* utils/Decoder.py: FP8_Codec                                             *)
(***************************************************************************)
FORMATS == [e2m5 |-> <<2, 5>>, e3m4 |-> <<3, 4>>, e4m3 |-> <<4, 3>>, e5m2 |-> <<5, 2>>]

FormatNames == {"e2m5", "e3m4", "e4m3", "e5m2"}

\* faulty variant of get_format_params: the two widths of the FORMATS entry are
\* taken in the wrong order
get_format_params_swapped(fp_format) ==
    LET e_bits == FORMATS[fp_format][2]
        m_bits == FORMATS[fp_format][1]
    IN  [e_bits |-> e_bits, m_bits |-> m_bits, bias |-> Pow2(e_bits - 1) - 1]

\* faulty variant of get_format_params: the bias is 2^(e_bits-1), one too large
get_format_params_bias_off(fp_format) ==
    LET e_bits == FORMATS[fp_format][1]
        m_bits == FORMATS[fp_format][2]
    IN  [e_bits |-> e_bits, m_bits |-> m_bits, bias |-> Pow2(e_bits - 1)]

get_format_params(fp_format) ==
    LET e_bits == FORMATS[fp_format][1]
        m_bits == FORMATS[fp_format][2]
    IN  [e_bits |-> e_bits, m_bits |-> m_bits, bias |-> Pow2(e_bits - 1) - 1]

\* FP8_Codec.decode(input_data, fp_format): (value, E, fraction, M, flag)
decode(input_data, fp_format) ==
    LET p == get_format_params(fp_format)
        e_bits == p.e_bits
        m_bits == p.m_bits
        bias == p.bias
        mant_scale == Pow2(m_bits)
        exp_all_ones == Pow2(e_bits) - 1
        b == input_data % 256
        sign == (b \div Pow2(e_bits + m_bits)) % 2
        exp_raw == (b \div Pow2(m_bits)) % Pow2(e_bits)
        mant == b % Pow2(m_bits)
        frac == Fin(FALSE, mant, -m_bits)
    IN  IF exp_raw = 0 THEN
            IF mant = 0
            THEN [value |-> Fin(sign = 1, 0, 0), E |-> 1 - bias, fraction |-> frac,
                  M |-> Fin(FALSE, 0, 0), flag |-> "zero"]
            ELSE [value |-> Fin(sign = 1, mant, 1 - bias - m_bits), E |-> 1 - bias,
                  fraction |-> frac, M |-> frac, flag |-> "denormalized"]
        ELSE IF exp_raw = exp_all_ones THEN
            IF mant = 0
            THEN [value |-> Inf(sign = 1), E |-> 0, fraction |-> frac,
                  M |-> Fin(FALSE, 0, 0), flag |-> "infinity"]
            ELSE [value |-> NaN, E |-> 0, fraction |-> frac, M |-> NaN, flag |-> "NaN"]
        ELSE [value |-> Fin(sign = 1, mant_scale + mant, exp_raw - bias - m_bits),
              E |-> exp_raw - bias, fraction |-> frac,
              M |-> Fin(FALSE, mant_scale + mant, -m_bits), flag |-> "normalized"]

\* FP8_Codec.encode(decimal_number, fp_format)
encode(decimal_number, fp_format) ==
    LET p == get_format_params(fp_format)
        e_bits == p.e_bits
        m_bits == p.m_bits
        bias == p.bias
        total_bits == 1 + e_bits + m_bits
        max_exp == Pow2(e_bits) - 1
        sign_bit == IF decimal_number.neg THEN "1" ELSE "0"
        infinity == <<sign_bit>> \o Rep("1", e_bits) \o Rep("0", m_bits)
        zero == <<sign_bit>> \o Rep("0", e_bits) \o Rep("0", m_bits)
        exp_unbiased == FloorLog2(decimal_number)
        exp_raw == exp_unbiased + bias
        pack(er, mt) == <<sign_bit>> \o FormatBin(er, e_bits) \o FormatBin(mt, m_bits)
        \* fraction * (1 << m_bits), denormal path: x / 2^(1-bias) * 2^m_bits
        mant_d == RoundHalfEven(decimal_number.m, decimal_number.e - (1 - bias) + m_bits)
        \* fraction * (1 << m_bits), normal path: (x / 2^exp_unbiased - 1) * 2^m_bits
        mant_n == RoundHalfEven(decimal_number.m, decimal_number.e - exp_unbiased + m_bits)
                    - Pow2(m_bits)
    IN  IF decimal_number.kind = "nan"
        THEN <<"0">> \o Rep("1", e_bits) \o <<"1">> \o Rep("0", m_bits - 1)
        ELSE IF decimal_number.kind = "inf" THEN infinity
        ELSE IF decimal_number.m = 0 THEN Rep("0", total_bits)
        ELSE IF exp_raw >= max_exp THEN infinity
        ELSE IF exp_raw <= 0 THEN
            IF exp_raw < -(m_bits - 1) THEN zero
            ELSE IF mant_d >= Pow2(m_bits) THEN pack(1, 0)
            ELSE IF mant_d = 0 THEN zero
            ELSE pack(0, mant_d)
        ELSE IF mant_n = Pow2(m_bits)
             THEN IF exp_raw + 1 >= max_exp THEN infinity ELSE pack(exp_raw + 1, 0)
             ELSE pack(exp_raw, mant_n)

(***************************************************************************)
(* utils/Adder.py: Adder                                                   *)
(***************************************************************************)
RECURSIVE ripple_drops_carry(_, _, _, _)
\* faulty variant of ripple: a carry left after the last position is dropped
ripple_drops_carry(a, b, index, carry) ==
    IF index > Len(a) - 1 THEN <<>>
    ELSE LET b_bit == IF index > Len(b) - 1 THEN 0 ELSE ParseBin(<<b[index + 1]>>)
             total == ParseBin(<<a[index + 1]>>) + b_bit + carry
         IN  <<(IF total % 2 = 1 THEN "1" ELSE "0")>>
                \o ripple_drops_carry(a, b, index + 1, IF total > 1 THEN 1 ELSE 0)

RECURSIVE ripple(_, _, _, _)
\* the loop of int_bin_adder over the reversed strings (a the longer one):
\* index is the 0-based position, the result is built least significant first
ripple(a, b, index, carry) ==
    IF index > Len(a) - 1 THEN (IF carry = 1 THEN <<"1">> ELSE <<>>)
    ELSE LET b_bit == IF index > Len(b) - 1 THEN 0 ELSE ParseBin(<<b[index + 1]>>)
             total == ParseBin(<<a[index + 1]>>) + b_bit + carry
         IN  <<(IF total % 2 = 1 THEN "1" ELSE "0")>>
                \o ripple(a, b, index + 1, IF total > 1 THEN 1 ELSE 0)

\* faulty variant of int_bin_adder: the operands are not swapped when a is
\* the shorter one
int_bin_adder_no_swap(a, b) ==
    Reverse(ripple(Reverse(a), Reverse(b), 0, 0))

\* Adder.int_bin_adder(a, b)
int_bin_adder(a, b) ==
    LET longer == IF Len(a) < Len(b) THEN b ELSE a
        shorter == IF Len(a) < Len(b) THEN a ELSE b
    IN  Reverse(ripple(Reverse(longer), Reverse(shorter), 0, 0))

\* faulty variant of decode_fields: the fields are cut without the offset of
\* the sign bit
decode_fields_no_sign_offset(bin_str, EXP_BITS) ==
    [sign |-> IF Len(bin_str) > 0 /\ bin_str[1] = "1" THEN 1 ELSE 0,
     exp |-> ParseBin(Slice(bin_str, 0, EXP_BITS)),
     mant |-> ParseBin(Slice(bin_str, EXP_BITS, Len(bin_str)))]

\* decode_fields(bin_str) inside fp_bin_adder; exp or mant is -1 when int() raises
decode_fields(bin_str, EXP_BITS) ==
    [sign |-> IF Len(bin_str) > 0 /\ bin_str[1] = "1" THEN 1 ELSE 0,
     exp |-> ParseBin(Slice(bin_str, 1, 1 + EXP_BITS)),
     mant |-> ParseBin(Slice(bin_str, 1 + EXP_BITS, Len(bin_str)))]

\* the NaN pattern fp_bin_adder returns
adder_nan_bits(EXP_BITS, MANT_BITS) ==
    <<"0">> \o Rep("1", EXP_BITS)
        \o (IF MANT_BITS > 0 THEN Rep("0", MANT_BITS - 1) \o <<"1">> ELSE <<>>)

\* faulty variant of adder_inf_bits: the sign character is left out
adder_inf_bits_no_sign(s, EXP_BITS, MANT_BITS) ==
    Rep("1", EXP_BITS) \o Rep("0", MANT_BITS)

\* f"{s:b}" + '1' * EXP_BITS + '0' * MANT_BITS
adder_inf_bits(s, EXP_BITS, MANT_BITS) ==
    <<(IF s = 1 THEN "1" ELSE "0")>> \o Rep("1", EXP_BITS) \o Rep("0", MANT_BITS)

\* no string: the section of fp_bin_adder did not return
NoResult == <<>>

\* faulty variant of fp_special: two infinities are not tested for opposite signs
fp_special_unsigned(fa, fb, fp_format) ==
    LET p == get_format_params(fp_format)
        EXP_BITS == p.e_bits
        MANT_BITS == p.m_bits
        EXP_ALL_ONES == Pow2(EXP_BITS) - 1
        is_nan(e, m) == e = EXP_ALL_ONES /\ m # 0
        is_inf(e, m) == e = EXP_ALL_ONES /\ m = 0
    IN  IF is_nan(fa.exp, fa.mant) \/ is_nan(fb.exp, fb.mant)
        THEN adder_nan_bits(EXP_BITS, MANT_BITS)
        ELSE IF is_inf(fa.exp, fa.mant) THEN adder_inf_bits(fa.sign, EXP_BITS, MANT_BITS)
        ELSE IF is_inf(fb.exp, fb.mant) THEN adder_inf_bits(fb.sign, EXP_BITS, MANT_BITS)
        ELSE NoResult

\* fp_bin_adder, "Special values (Inf/NaN)": the string returned, or NoResult
\* when neither operand is special
fp_special(fa, fb, fp_format) ==
    LET p == get_format_params(fp_format)
        EXP_BITS == p.e_bits
        MANT_BITS == p.m_bits
        EXP_ALL_ONES == Pow2(EXP_BITS) - 1
        is_nan(e, m) == e = EXP_ALL_ONES /\ m # 0
        is_inf(e, m) == e = EXP_ALL_ONES /\ m = 0
    IN  IF is_nan(fa.exp, fa.mant) \/ is_nan(fb.exp, fb.mant)
        THEN adder_nan_bits(EXP_BITS, MANT_BITS)
        ELSE IF is_inf(fa.exp, fa.mant) /\ is_inf(fb.exp, fb.mant)
             THEN IF fa.sign # fb.sign THEN adder_nan_bits(EXP_BITS, MANT_BITS)
                  ELSE adder_inf_bits(fa.sign, EXP_BITS, MANT_BITS)
        ELSE IF is_inf(fa.exp, fa.mant) THEN adder_inf_bits(fa.sign, EXP_BITS, MANT_BITS)
        ELSE IF is_inf(fb.exp, fb.mant) THEN adder_inf_bits(fb.sign, EXP_BITS, MANT_BITS)
        ELSE NoResult

\* faulty variant of fp_zero_shortcut: the second shortcut returns b_bin too
fp_zero_shortcut_same(a_bin_, b_bin_, fa, fb) ==
    IF fa.exp = 0 /\ fa.mant = 0 THEN b_bin_
    ELSE IF fb.exp = 0 /\ fb.mant = 0 THEN b_bin_
    ELSE NoResult

\* fp_bin_adder, "Zero shortcuts": the operand returned, or NoResult
fp_zero_shortcut(a_bin_, b_bin_, fa, fb) ==
    IF fa.exp = 0 /\ fa.mant = 0 THEN b_bin_
    ELSE IF fb.exp = 0 /\ fb.mant = 0 THEN a_bin_
    ELSE NoResult

\* fp_bin_adder from "Add hidden bit for normals" to the end: alignment,
\* signed mantissa add, normalization, overflow and packing
fp_finite_add(fa, fb, fp_format) ==
    LET p == get_format_params(fp_format)
        EXP_BITS == p.e_bits
        MANT_BITS == p.m_bits
        EXP_ALL_ONES == Pow2(EXP_BITS) - 1
        sa == fa.sign
        ea == fa.exp
        sb == fb.sign
        eb == fb.exp
        bit(s) == IF s = 1 THEN "1" ELSE "0"
        \* add hidden bit for normals
        ma1 == IF ea # 0 THEN fa.mant + Pow2(MANT_BITS) ELSE fa.mant
        mb1 == IF eb # 0 THEN fb.mant + Pow2(MANT_BITS) ELSE fb.mant
        \* exponent alignment (truncate on right shift)
        ma2 == IF eb > ea THEN ma1 \div Pow2(eb - ea) ELSE ma1
        mb2 == IF ea > eb THEN mb1 \div Pow2(ea - eb) ELSE mb1
        exp_res0 == IF eb > ea THEN eb ELSE ea
        \* signed mantissa add
        mant_sum == (IF sa = 1 THEN -ma2 ELSE ma2) + (IF sb = 1 THEN -mb2 ELSE mb2)
        sign_res == IF mant_sum < 0 THEN 1 ELSE 0
        mant_abs == IF mant_sum < 0 THEN -mant_sum ELSE mant_sum
        \* normalize to align MSB to hidden-bit position
        msb_pos == BitLength(mant_abs) - 1
        shift_r == msb_pos - MANT_BITS
        shift_l == MANT_BITS - msb_pos
        mant_res == IF msb_pos > MANT_BITS THEN mant_abs \div Pow2(shift_r)
                    ELSE IF msb_pos < MANT_BITS /\ exp_res0 > 0 THEN mant_abs * Pow2(shift_l)
                    ELSE mant_abs
        exp_res == IF msb_pos > MANT_BITS THEN exp_res0 + shift_r
                   ELSE IF msb_pos < MANT_BITS /\ exp_res0 > 0 THEN exp_res0 - shift_l
                   ELSE exp_res0
        \* while mant_res >= (1 << MANT_BITS): mant_res >>= 1
        clamp == IF BitLength(mant_res) > MANT_BITS
                 THEN mant_res \div Pow2(BitLength(mant_res) - MANT_BITS)
                 ELSE mant_res
    IN  IF mant_sum = 0 THEN <<"0">> \o Rep("0", EXP_BITS) \o Rep("0", MANT_BITS)
        \* overflow -> Inf
        ELSE IF exp_res >= EXP_ALL_ONES THEN adder_inf_bits(sign_res, EXP_BITS, MANT_BITS)
        \* pack (normal vs subnormal)
        ELSE IF exp_res > 0
             THEN <<bit(sign_res)>> \o FormatBin(exp_res, EXP_BITS)
                    \o FormatBin(mant_res % Pow2(MANT_BITS), MANT_BITS)
             ELSE <<bit(sign_res)>> \o Rep("0", EXP_BITS) \o FormatBin(clamp, MANT_BITS)

\* Adder.fp_bin_adder(a_bin, b_bin) of an Adder constructed with fp_format
fp_bin_adder(a_bin_, b_bin_, fp_format) ==
    LET fa == decode_fields(a_bin_, get_format_params(fp_format).e_bits)
        fb == decode_fields(b_bin_, get_format_params(fp_format).e_bits)
        special == fp_special(fa, fb, fp_format)
        shortcut == fp_zero_shortcut(a_bin_, b_bin_, fa, fb)
    IN  IF fa.exp = -1 \/ fa.mant = -1 \/ fb.exp = -1 \/ fb.mant = -1 THEN ValueError
        ELSE IF special # NoResult THEN special
        ELSE IF shortcut # NoResult THEN shortcut
        ELSE fp_finite_add(fa, fb, fp_format)

(***************************************************************************)
(* utils/Multiplier.py: Multiplier                                         *)
(***************************************************************************)
\* Multiplier._unpakcing(value): (sign, exponent, mantissa) as strings
unpakcing(value, fp_format) ==
    LET exp_bits == get_format_params(fp_format).e_bits
    IN  [sign |-> value[1],
         exponent |-> Slice(value, 1, 1 + exp_bits),
         mantissa |-> Slice(value, 1 + exp_bits, Len(value))]

RECURSIVE man_sum(_, _, _)
\* sum of int(man[i]) * 2^(mant_bits-1-i) for i in n..mant_bits-1: the loop of
\* _em_cul with the fraction kept as a numerator over 2^mant_bits
man_sum(man, n, mant_bits) ==
    IF n >= mant_bits THEN 0
    ELSE (IF man[n + 1] = "1" THEN Pow2(mant_bits - 1 - n) ELSE 0)
            + man_sum(man, n + 1, mant_bits)

\* faulty variant of em_cul: an all-zero exponent string is not told apart
em_cul_no_denormal(exp, man, fp_format) ==
    LET p == get_format_params(fp_format)
    IN  [e |-> ParseBin(exp) - p.bias, m |-> man_sum(man, 0, p.m_bits)]

\* Multiplier._em_cul(exp, man): [e, m], m the numerator of the float m over
\* 2^mant_bits (-1 + fraction for an all-zero exponent string, else fraction)
em_cul(exp, man, fp_format) ==
    LET p == get_format_params(fp_format)
    IN  IF exp = FormatBin(0, p.e_bits)
        THEN [e |-> 1 - p.bias, m |-> man_sum(man, 0, p.m_bits) - Pow2(p.m_bits)]
        ELSE [e |-> ParseBin(exp) - p.bias, m |-> man_sum(man, 0, p.m_bits)]

\* the float sign * num * 2^ex handed to encode: "if sign == 1: v = -v"
Signed(sign, num, ex) ==
    IF sign = 1 THEN Negate(FinSigned(num, ex)) ELSE FinSigned(num, ex)

\* faulty variant of multiply_value: the cross term x*y is left out
multiply_value_linear(value_a, value_b, fp_format) ==
    LET m_bits == get_format_params(fp_format).m_bits
        u1 == unpakcing(value_a, fp_format)
        u2 == unpakcing(value_b, fp_format)
        sign == (ParseBin(<<u1.sign>>) + ParseBin(<<u2.sign>>)) % 2
        xx == em_cul(u1.exponent, u1.mantissa, fp_format)
        yy == em_cul(u2.exponent, u2.mantissa, fp_format)
        num == Pow2(m_bits) + xx.m + yy.m
    IN  Signed(sign, num, xx.e + yy.e - m_bits)

\* Multiplier.multiply(value_a, value_b), as a float (bin_output == False)
multiply_value(value_a, value_b, fp_format) ==
    LET m_bits == get_format_params(fp_format).m_bits
        u1 == unpakcing(value_a, fp_format)
        u2 == unpakcing(value_b, fp_format)
        sign == (ParseBin(<<u1.sign>>) + ParseBin(<<u2.sign>>)) % 2
        xx == em_cul(u1.exponent, u1.mantissa, fp_format)
        yy == em_cul(u2.exponent, u2.mantissa, fp_format)
        \* (1 + x + y + x*y) over 2^(2*m_bits)
        num == Pow2(2 * m_bits) + (xx.m + yy.m) * Pow2(m_bits) + xx.m * yy.m
    IN  Signed(sign, num, xx.e + yy.e - 2 * m_bits)

\* Multiplier.multiply with bin_output == True
multiply(value_a, value_b, fp_format) ==
    encode(multiply_value(value_a, value_b, fp_format), fp_format)

\* Multiplier.L_Mul(value_a, value_b), as a float
L_Mul_value(value_a, value_b, fp_format) ==
    LET mant_bits == get_format_params(fp_format).m_bits
        u1 == unpakcing(value_a, fp_format)
        u2 == unpakcing(value_b, fp_format)
        sign == (ParseBin(<<u1.sign>>) + ParseBin(<<u2.sign>>)) % 2
        xx == em_cul(u1.exponent, u1.mantissa, fp_format)
        yy == em_cul(u2.exponent, u2.mantissa, fp_format)
        lm == IF mant_bits <= 3 THEN mant_bits ELSE IF mant_bits = 4 THEN 3 ELSE 4
        \* (1 + x + y + 2^-lm) over 2^mant_bits
        num == Pow2(mant_bits) + xx.m + yy.m + Pow2(mant_bits - lm)
    IN  Signed(sign, num, xx.e + yy.e - mant_bits)

\* Multiplier.L_Mul with bin_output == True
L_Mul(value_a, value_b, fp_format) ==
    encode(L_Mul_value(value_a, value_b, fp_format), fp_format)

\* faulty variant of FASA_value: the sum is cut into an exponent field of
\* exp_bits characters, so the carry of the mantissa sum is lost
FASA_value_narrow_exponent(value_a, value_b, fp_format) ==
    LET p == get_format_params(fp_format)
        u1 == unpakcing(value_a, fp_format)
        u2 == unpakcing(value_b, fp_format)
        sign == (ParseBin(<<u1.sign>>) + ParseBin(<<u2.sign>>)) % 2
        s == int_bin_adder(u1.exponent \o u1.mantissa, u2.exponent \o u2.mantissa)
        sum_binary == Rep("0", 8 - Len(s)) \o s
        exp == Slice(sum_binary, 1, p.e_bits + 1)
        man == Slice(sum_binary, p.e_bits + 1, 8)
        num == Pow2(p.m_bits) + man_sum(man, 0, p.m_bits)
    IN  Signed(sign, num, ParseBin(exp) - 2 * p.bias - p.m_bits)

\* Multiplier.FASA(value_a, value_b), as a float
FASA_value(value_a, value_b, fp_format) ==
    LET p == get_format_params(fp_format)
        u1 == unpakcing(value_a, fp_format)
        u2 == unpakcing(value_b, fp_format)
        sign == (ParseBin(<<u1.sign>>) + ParseBin(<<u2.sign>>)) % 2
        mul1 == u1.exponent \o u1.mantissa
        mul2 == u2.exponent \o u2.mantissa
        s == int_bin_adder(mul1, mul2)
        \* "{0:0>8}".format(...)
        sum_binary == Rep("0", 8 - Len(s)) \o s
        exp == Slice(sum_binary, 0, p.e_bits + 1)
        man == Slice(sum_binary, p.e_bits + 1, 8)
        xy == em_cul(exp, man, fp_format)
        \* (1 + xy[1]) * 2^(xy[0] - bias)
        num == Pow2(p.m_bits) + xy.m
    IN  Signed(sign, num, xy.e - p.bias - p.m_bits)

\* Multiplier.FASA with bin_output == True
FASA(value_a, value_b, fp_format) ==
    encode(FASA_value(value_a, value_b, fp_format), fp_format)

(***************************************************************************)
(* Matmul.py: FP8MatrixMultiplier, the MAC units                           *)
(***************************************************************************)
\* FP8MatrixMultiplier.get_flag(val_bin); "ValueError" when int(val_bin, 2) raises
get_flag(val_bin, fp_format) ==
    IF IsBinary(val_bin) THEN decode(ParseBin(val_bin), fp_format).flag ELSE "ValueError"

BadFlags == {"infinity", "NaN"}

\* a_flag = self.get_flag(value_a); b_flag = self.get_flag(value_b)
operand_flags(value_a, value_b, fp_format) ==
    {get_flag(value_a, fp_format), get_flag(value_b, fp_format)}

\* a MAC unit whose result is handed back without the flag test of the result
checked_result_untested(result, fp_format, accumulation_marker) == result

\* the test of the sum that closes every MAC unit: the marker when the sum is
\* infinity or NaN, the sum otherwise
checked_result(result, fp_format, accumulation_marker) ==
    IF result = ValueError THEN ValueError
    ELSE IF get_flag(result, fp_format) \in BadFlags THEN accumulation_marker
    ELSE result

\* the second half of every MAC unit: the test of the product, then
\* result = self.adder.fp_bin_adder(prod_t_1, prod_t) and its test
accumulate(prod_t, prod_t_1, fp_format, product_marker, accumulation_marker) ==
    IF get_flag(prod_t, fp_format) \in BadFlags THEN product_marker
    ELSE checked_result(fp_bin_adder(prod_t_1, prod_t, fp_format), fp_format,
                        accumulation_marker)

\* FP8MatrixMultiplier.fasa_mac_unit(value_a, value_b, prod_t_1)
fasa_mac_unit(value_a, value_b, prod_t_1, fp_format) ==
    IF value_a = PASS \/ value_b = PASS \/ prod_t_1 = PASS THEN PASS
    ELSE IF "ValueError" \in operand_flags(value_a, value_b, fp_format) THEN ValueError
    ELSE IF operand_flags(value_a, value_b, fp_format) \cap BadFlags # {} THEN PASS
    ELSE accumulate(FASA(value_a, value_b, fp_format), prod_t_1, fp_format,
                    PASS, PASS)

\* faulty variant of mac_unit: the accumulator is not tested for 'pass'
mac_unit_operands_only(value_a, value_b, prod_t_1, fp_format) ==
    IF value_a = PASS \/ value_b = PASS THEN PASS
    ELSE IF "ValueError" \in operand_flags(value_a, value_b, fp_format) THEN ValueError
    ELSE IF operand_flags(value_a, value_b, fp_format) \cap BadFlags # {} THEN PASS
    ELSE accumulate(multiply(value_a, value_b, fp_format), prod_t_1, fp_format,
                    PASS, PASS)

\* FP8MatrixMultiplier.mac_unit(value_a, value_b, prod_t_1)
mac_unit(value_a, value_b, prod_t_1, fp_format) ==
    IF value_a = PASS \/ value_b = PASS \/ prod_t_1 = PASS THEN PASS
    ELSE IF "ValueError" \in operand_flags(value_a, value_b, fp_format) THEN ValueError
    ELSE IF operand_flags(value_a, value_b, fp_format) \cap BadFlags # {} THEN PASS
    ELSE accumulate(multiply(value_a, value_b, fp_format), prod_t_1, fp_format,
                    PASS, PASS)

\* FP8MatrixMultiplier.lmul_mac_unit(value_a, value_b, prod_t_1)
lmul_mac_unit(value_a, value_b, prod_t_1, fp_format) ==
    IF value_a = PASS \/ value_b = PASS \/ prod_t_1 = PASS THEN PASS
    ELSE IF "ValueError" \in operand_flags(value_a, value_b, fp_format) THEN ValueError
    ELSE IF operand_flags(value_a, value_b, fp_format) \cap BadFlags # {} THEN INPUT_PASS
    ELSE accumulate(L_Mul(value_a, value_b, fp_format), prod_t_1, fp_format,
                    PRODUCT_PASS, ACCUMULATION_PASS)

\* the MAC unit each matrix multiply drives
Algorithms == {"exact", "fasa", "lmul"}

mac_step(algorithm, value_a, value_b, prod_t_1, fp_format) ==
    IF algorithm = "exact" THEN mac_unit(value_a, value_b, prod_t_1, fp_format)
    ELSE IF algorithm = "fasa" THEN fasa_mac_unit(value_a, value_b, prod_t_1, fp_format)
    ELSE lmul_mac_unit(value_a, value_b, prod_t_1, fp_format)

(***************************************************************************)
(* Values the drivers use                                                  *)
(***************************************************************************)
\* the value of a variable a driver does not use
NoFloat == [kind |-> "none", neg |-> FALSE, m |-> 0, e |-> 0]
NoString == <<>>

\* what a result-matrix cell holds when the chain ended in 'pass'
PassCell == [kind |-> "pass", neg |-> FALSE, m |-> 0, e |-> 0]

\* the 256 bit patterns, as strings
AllPatterns == {FormatBin(n, 8) : n \in 0..255}

\* '0' * (1 + exp_bit + mant_bit)
ZeroBits(fp_format) ==
    LET p == get_format_params(fp_format) IN Rep("0", 1 + p.e_bits + p.m_bits)

\* the string sign ++ exponent field ++ mantissa field
Pack(sign, exp_raw, mant, fp_format) ==
    LET p == get_format_params(fp_format)
    IN  <<(IF sign = 1 THEN "1" ELSE "0")>> \o FormatBin(exp_raw, p.e_bits)
            \o FormatBin(mant, p.m_bits)

ExpAllOnes(fp_format) == Pow2(get_format_params(fp_format).e_bits) - 1
MantAllOnes(fp_format) == Pow2(get_format_params(fp_format).m_bits) - 1

(***************************************************************************)
(* Codec driver: the consistency test of utils/Decoder.py (decode a bit    *)
(* pattern, encode the value back) and encode applied to a grid of floats. *)
(***************************************************************************)
\* significands of the grid run over 1..GridMant
GridMant == 255
\* the grid reaches GridBelow binades under the smallest denormal
GridBelow == 9

\* the floats of the grid: +-n * 2^g from below the smallest denormal up to
\* the binade of the overflow threshold, and the specials
GridValues(fp_format) ==
    LET p == get_format_params(fp_format)
        lo == 1 - p.bias - p.m_bits - GridBelow
        hi == ExpAllOnes(fp_format) - p.bias
    IN  {Fin(neg, n, g) : neg \in BOOLEAN, n \in 1..GridMant, g \in lo..hi}
            \cup {Inf(FALSE), Inf(TRUE), NaN, Fin(FALSE, 0, 0), Fin(TRUE, 0, 0)}

InitCodec ==
    /\ format \in FormatNames
    /\ \/ pc = "bits" /\ a_bin \in AllPatterns /\ x = NoFloat
       \/ pc = "float" /\ a_bin = NoString /\ x \in GridValues(format)
    /\ b_bin = NoString /\ out = NoString /\ alg = "none"
    /\ A = <<>> /\ B = <<>> /\ C = <<>>
    /\ i = 0 /\ j = 0 /\ k = 0 /\ dot_product = NoString

\* v, _, _, _, flag = FP8_Codec.decode(test_data, fmt)
Decode ==
    /\ pc = "bits"
    /\ x' = decode(ParseBin(a_bin), format).value
    /\ pc' = "decoded"
    /\ UNCHANGED <<format, a_bin, b_bin, out, alg, A, B, C, i, j, k, dot_product>>

\* fp8_bin = FP8_Codec.encode(v, fmt)
Encode ==
    /\ pc \in {"decoded", "float"}
    /\ out' = encode(x, format)
    /\ pc' = IF pc = "decoded" THEN "reencoded" ELSE "encoded"
    /\ UNCHANGED <<format, x, a_bin, b_bin, alg, A, B, C, i, j, k, dot_product>>

NextCodec == Decode \/ Encode

SpecCodec == InitCodec /\ [][NextCodec]_vars

(***************************************************************************)
(* Arithmetic driver: adder_test / add_mul_test of test.py, over every     *)
(* pair of bit patterns.                                                   *)
(***************************************************************************)
InitArith ==
    /\ format \in FormatNames
    /\ pc = "operands"
    /\ a_bin \in AllPatterns
    /\ b_bin \in AllPatterns
    /\ x = NoFloat /\ out = NoString /\ alg = "none"
    /\ A = <<>> /\ B = <<>> /\ C = <<>>
    /\ i = 0 /\ j = 0 /\ k = 0 /\ dot_product = NoString

IsFinitePattern(s, fp_format) == get_flag(s, fp_format) \notin (BadFlags \cup {"ValueError"})

\* res_bin = adder.fp_bin_adder(a_bin=a_bin, b_bin=b_bin)
FpAdd ==
    /\ pc = "operands"
    /\ out' = fp_bin_adder(a_bin, b_bin, format)
    /\ pc' = "fp_add"
    /\ UNCHANGED <<format, x, a_bin, b_bin, alg, A, B, C, i, j, k, dot_product>>

\* mul.multiply(value_a, value_b) with bin_output=True
Multiply ==
    /\ pc = "operands"
    /\ out' = multiply(a_bin, b_bin, format)
    /\ pc' = "multiply"
    /\ UNCHANGED <<format, x, a_bin, b_bin, alg, A, B, C, i, j, k, dot_product>>

\* mul.L_Mul(value_a, value_b) with bin_output=True
LMul ==
    /\ pc = "operands"
    /\ out' = L_Mul(a_bin, b_bin, format)
    /\ pc' = "L_Mul"
    /\ UNCHANGED <<format, x, a_bin, b_bin, alg, A, B, C, i, j, k, dot_product>>

\* mul.FASA(value_a, value_b) with bin_output=True
Fasa ==
    /\ pc = "operands"
    /\ out' = FASA(a_bin, b_bin, format)
    /\ pc' = "FASA"
    /\ UNCHANGED <<format, x, a_bin, b_bin, alg, A, B, C, i, j, k, dot_product>>

NextArith == FpAdd \/ Multiply \/ LMul \/ Fasa

SpecArith == InitArith /\ [][NextArith]_vars

(***************************************************************************)
(* Integer adder driver: the int_bin_adder quick check of utils/Adder.py,  *)
(* over every pair of binary strings of up to MaxBits characters.          *)
(***************************************************************************)
\* longest operand string of the integer adder driver
MaxBits == 6

\* the non-empty binary strings of at most n characters
BinaryStrings(n) == UNION {[1..len -> {"0", "1"}] : len \in 1..n}

\* adder_tmp = Adder(): the format is irrelevant for the integer adder
InitInt ==
    /\ format = "e3m4"
    /\ pc = "int_operands"
    /\ a_bin \in BinaryStrings(MaxBits)
    /\ b_bin \in BinaryStrings(MaxBits)
    /\ x = NoFloat /\ out = NoString /\ alg = "none"
    /\ A = <<>> /\ B = <<>> /\ C = <<>>
    /\ i = 0 /\ j = 0 /\ k = 0 /\ dot_product = NoString

\* adder_tmp.int_bin_adder(a, b)
IntAdd ==
    /\ pc = "int_operands"
    /\ out' = int_bin_adder(a_bin, b_bin)
    /\ pc' = "int_add"
    /\ UNCHANGED <<format, x, a_bin, b_bin, alg, A, B, C, i, j, k, dot_product>>

NextInt == IntAdd

SpecInt == InitInt /\ [][NextInt]_vars

(***************************************************************************)
(* MAC chain driver: fane_mm_test.py.  p_0 = mac(a_0, b_0, '00000000') and *)
(* p_i = mac(a_i, b_i, p_{i-1}); operands are drawn from a set of patterns *)
(* of every class, and the marker 'pass' the MAC units test their operands *)
(* for.                                                                    *)
(***************************************************************************)
\* number of MAC steps of a chain (fane_mm_test.py runs 9)
MaxChain == 3

MacOperands(fp_format) ==
    LET top == ExpAllOnes(fp_format)
        bias == get_format_params(fp_format).bias
        half == Pow2(get_format_params(fp_format).m_bits - 1)
    IN  { PASS,
          ZeroBits(fp_format),
          Pack(0, 0, 1, fp_format),                               \* smallest denormal
          Pack(0, bias, half, fp_format),                         \* 1.5
          Pack(0, top - 1, MantAllOnes(fp_format), fp_format),    \* largest finite
          Pack(1, top - 1, MantAllOnes(fp_format), fp_format),    \* -largest finite
          Pack(0, top, 0, fp_format),                             \* +inf
          Pack(0, top, half, fp_format) }                         \* NaN

InitMac ==
    /\ format \in FormatNames
    /\ alg \in Algorithms
    /\ pc = "chain"
    /\ k = 0
    /\ dot_product = ZeroBits(format)
    /\ a_bin = NoString /\ b_bin = NoString /\ out = NoString /\ x = NoFloat
    /\ A = <<>> /\ B = <<>> /\ C = <<>>
    /\ i = 0 /\ j = 0

\* p[i] = matmul.<alg>_mac_unit(value_a, value_b, prod_t_1 = p[i-1]); a
\* ValueError leaves the driver
MacStep ==
    /\ pc = "chain"
    /\ k < MaxChain
    /\ \E value_a \in MacOperands(format), value_b \in MacOperands(format) :
         \E result \in {mac_step(alg, value_a, value_b, dot_product, format)} :
             /\ a_bin' = value_a
             /\ b_bin' = value_b
             /\ out' = result
             /\ IF result = ValueError
                THEN pc' = "raised" /\ UNCHANGED <<k, dot_product>>
                ELSE pc' = "chain" /\ k' = k + 1 /\ dot_product' = result
    /\ UNCHANGED <<format, x, alg, A, B, C, i, j>>

NextMac == MacStep

SpecMac == InitMac /\ [][NextMac]_vars

\* ---------------------------------------------------------------------------
\* One MAC step on arbitrary patterns: the three MAC units are plain methods of
\* FP8MatrixMultiplier, callable with any operand strings and any accumulator
\* ---------------------------------------------------------------------------

\* spacing of the operand patterns drawn besides the MacOperands
OperandStride == 51

StepOperands(fp_format) ==
    (MacOperands(fp_format) \ {PASS})
        \cup {FormatBin(n * OperandStride, 8) : n \in 0..(255 \div OperandStride)}

InitStep ==
    /\ format \in FormatNames
    /\ alg \in Algorithms
    /\ pc = "mac_operands"
    /\ a_bin \in StepOperands(format)
    /\ b_bin \in StepOperands(format)
    /\ dot_product \in AllPatterns
    /\ out = NoString /\ x = NoFloat
    /\ A = <<>> /\ B = <<>> /\ C = <<>>
    /\ i = 0 /\ j = 0 /\ k = 0

\* out = matmul.<alg>_mac_unit(a_bin, b_bin, prod_t_1 = dot_product)
MacOnce ==
    /\ pc = "mac_operands"
    /\ out' = mac_step(alg, a_bin, b_bin, dot_product, format)
    /\ pc' = "mac_step"
    /\ UNCHANGED <<format, x, a_bin, b_bin, alg, A, B, C, i, j, k, dot_product>>

NextStep == MacOnce

SpecStep == InitStep /\ [][NextStep]_vars

(***************************************************************************)
(* Matrix engine: matrix_multiply / fasa_matrix_multiply /                 *)
(* l_mul_matrix_multiply of Matmul.py, one MAC step or one cell store per  *)
(* action.  Indices i, j, k are 0-based as in the source.                  *)
(***************************************************************************)
\* largest matrix dimensions of the model
MaxRows == 2
MaxInner == 2
MaxCols == 2

\* finite entries: 0.25, 1.5, -0.75, 3.0
Palette == <<Fin(FALSE, 1, -2), Fin(FALSE, 3, -1), Fin(TRUE, 3, -2), Fin(FALSE, 3, 0)>>

\* entries no format can hold: a magnitude far outside every range, the
\* infinities and NaN
BigFloat == Fin(FALSE, 1, 40)
Exceptional == {BigFloat, Negate(BigFloat), Inf(FALSE), NaN}

\* the all-finite matrix of the given shape; entry (1,1) is 0.25
BaseMatrix(rows, cols) ==
    [r \in 1..rows |-> [c \in 1..cols |-> Palette[(((r - 1) * cols + (c - 1)) % Len(Palette)) + 1]]]

\* the input matrices: all-finite, or with one exceptional entry
Matrices(rows, cols) ==
    {BaseMatrix(rows, cols)} \cup
    {[BaseMatrix(rows, cols) EXCEPT ![r][c] = v] : r \in 1..rows, c \in 1..cols, v \in Exceptional}

Init ==
    /\ format \in FormatNames
    /\ alg \in Algorithms
    /\ \E rows \in 1..MaxRows, inner \in 1..MaxInner, cols \in 1..MaxCols :
         /\ A \in Matrices(rows, inner)
         /\ B \in Matrices(inner, cols)
         /\ (A = BaseMatrix(rows, inner) \/ B = BaseMatrix(inner, cols))
         \* C = [[0 for _ in range(cols_b)] for _ in range(rows_a)]
         /\ C = [r \in 1..rows |-> [c \in 1..cols |-> Fin(FALSE, 0, 0)]]
    /\ pc = "loop"
    /\ i = 0 /\ j = 0 /\ k = 0
    /\ dot_product = ZeroBits(format)
    /\ a_bin = NoString /\ b_bin = NoString /\ out = NoString /\ x = NoFloat

rows_a == Len(A)
cols_a == Len(A[1])
cols_b == Len(B[1])

\* faulty variant of MatMacStep: every MAC step is handed the all-zero
\* accumulator instead of the previous step's output
MatMacStep_fresh_accumulator ==
    /\ pc = "loop"
    /\ k < cols_a
    /\ \E value_a_str \in {encode(A[i + 1][k + 1], format)},
          value_b_str \in {encode(B[k + 1][j + 1], format)} :
         \E result \in {mac_step(alg, value_a_str, value_b_str, ZeroBits(format), format)} :
           /\ a_bin' = value_a_str
           /\ b_bin' = value_b_str
           /\ IF result = ValueError
              THEN pc' = "raised" /\ UNCHANGED <<k, dot_product>>
              ELSE pc' = "loop" /\ k' = k + 1 /\ dot_product' = result
    /\ UNCHANGED <<format, x, out, alg, A, B, C, i, j>>

\* the body of "for k in range(cols_a)": encode both entries, one MAC step
MatMacStep ==
    /\ pc = "loop"
    /\ k < cols_a
    /\ \E value_a_str \in {encode(A[i + 1][k + 1], format)},
          value_b_str \in {encode(B[k + 1][j + 1], format)} :
         \E result \in {mac_step(alg, value_a_str, value_b_str, dot_product, format)} :
           /\ a_bin' = value_a_str
           /\ b_bin' = value_b_str
           /\ IF result = ValueError
              THEN pc' = "raised" /\ UNCHANGED <<k, dot_product>>
              ELSE pc' = "loop" /\ k' = k + 1 /\ dot_product' = result
    /\ UNCHANGED <<format, x, out, alg, A, B, C, i, j>>

\* after the k loop: store 'pass' or the decoded value in C[i][j] and move to
\* the next cell; int(dot_product, 2) raises on a string that is not binary
StoreCell ==
    /\ pc = "loop"
    /\ k = cols_a
    /\ IF dot_product # PASS /\ ~IsBinary(dot_product)
       THEN pc' = "raised" /\ UNCHANGED <<C, i, j, k, dot_product>>
       ELSE /\ C' = [C EXCEPT ![i + 1][j + 1] =
                        IF dot_product = PASS THEN PassCell
                        ELSE decode(ParseBin(dot_product), format).value]
            /\ k' = 0
            /\ dot_product' = ZeroBits(format)
            /\ IF j + 1 < cols_b THEN i' = i /\ j' = j + 1 /\ pc' = "loop"
               ELSE IF i + 1 < rows_a THEN i' = i + 1 /\ j' = 0 /\ pc' = "loop"
               ELSE i' = i /\ j' = j /\ pc' = "returned"
    /\ UNCHANGED <<format, x, a_bin, b_bin, out, alg, A, B>>

Next == MatMacStep \/ StoreCell

Spec == Init /\ [][Next]_vars

(***************************************************************************)
(* Properties                                                              *)
(***************************************************************************)
\* comparison of magnitudes of finite floats: |u| < |v|
MagLess(u, v) ==
    IF v.m = 0 THEN FALSE
    ELSE IF u.m = 0 THEN TRUE
    ELSE LET tu == BitLength(u.m) + u.e
             tv == BitLength(v.m) + v.e
             e0 == IF u.e < v.e THEN u.e ELSE v.e
         IN  IF tu # tv THEN tu < tv
             ELSE u.m * Pow2(u.e - e0) < v.m * Pow2(v.e - e0)

\* |u| + |v| for finite floats of neighbouring magnitude
MagSum(u, v) ==
    LET e0 == IF u.m = 0 THEN v.e ELSE IF v.m = 0 THEN u.e
              ELSE IF u.e < v.e THEN u.e ELSE v.e
    IN  Fin(FALSE, (IF u.m = 0 THEN 0 ELSE u.m * Pow2(u.e - e0))
                     + (IF v.m = 0 THEN 0 ELSE v.m * Pow2(v.e - e0)), e0)

\* 2 * |v|
Twice(v) == Fin(FALSE, v.m, v.e + 1)

\* the non-negative finite values of a format are the patterns
\* 0..MaxFiniteIndex, in increasing order of value
MaxFiniteIndex(fp_format) ==
    ExpAllOnes(fp_format) * Pow2(get_format_params(fp_format).m_bits) - 1

MagValue(n, fp_format) == decode(n, fp_format).value

\* the magnitude with index n is a representable magnitude nearest to |v|:
\* |v| lies between the midpoints to the two neighbours of n (the values are
\* ordered, so no representable value is then strictly closer to |v|)
NearestIndex(n, v, fp_format) ==
    /\ n \in 0..MaxFiniteIndex(fp_format)
    /\ n < MaxFiniteIndex(fp_format) =>
         ~MagLess(MagSum(MagValue(n, fp_format), MagValue(n + 1, fp_format)), Twice(v))
    /\ n > 0 =>
         ~MagLess(Twice(v), MagSum(MagValue(n - 1, fp_format), MagValue(n, fp_format)))

\* the magnitude bits of a pattern
MagIndex(bits) == ParseBin(bits) % 128

\* the pattern decodes to a representable value nearest to the float v
DecodesToNearest(bits, v, fp_format) ==
    /\ IsFinitePattern(bits, fp_format)
    /\ NearestIndex(MagIndex(bits), v, fp_format)
    /\ MagIndex(bits) = 0 \/ (bits[1] = "1") = v.neg

\* the pattern decodes to a value at most one representable step away from a
\* representable value nearest to the float v
DecodesWithinOneUlp(bits, v, fp_format) ==
    /\ IsFinitePattern(bits, fp_format)
    /\ \E n \in {MagIndex(bits) - 1, MagIndex(bits), MagIndex(bits) + 1} :
         NearestIndex(n, v, fp_format)
    /\ MagIndex(bits) = 0 \/ v.m = 0 \/ (bits[1] = "1") = v.neg

\* the largest finite value of a format
MaxFiniteValue(fp_format) == MagValue(MaxFiniteIndex(fp_format), fp_format)

\* the exact real product of two finite floats
ExactProduct(u, v) == Fin(u.neg # v.neg, u.m * v.m, u.e + v.e)

\* sign 0, exponent all ones, mantissa with only the top bit set
CanonicalNaN(fp_format) ==
    Pack(0, ExpAllOnes(fp_format), Pow2(get_format_params(fp_format).m_bits - 1), fp_format)

NegZeroBits(fp_format) == Pack(1, 0, 0, fp_format)

(* C1: Sticky failure.  In a MAC chain of any of the three MAC units, a    *)
(* step whose incoming accumulator is the marker 'pass' returns 'pass'     *)
(* (it does not raise), whatever the two operands are; so once the         *)
(* accumulator is 'pass' it is 'pass' at every later step.                 *)
C1_StickyFailure ==
    [][dot_product = PASS => (dot_product' = PASS /\ pc' = "chain")]_vars

\* an L-Mul chain took a step on a 'pass' accumulator with two finite operands
C1_Witness ==
    /\ pc = "chain" /\ alg = "lmul" /\ k >= 2
    /\ dot_product = PASS
    /\ IsFinitePattern(a_bin, format) /\ IsFinitePattern(b_bin, format)

\* the product pattern the MAC unit of an algorithm computes
ProductOf(algorithm, value_a, value_b, fp_format) ==
    IF algorithm = "exact" THEN multiply(value_a, value_b, fp_format)
    ELSE IF algorithm = "fasa" THEN FASA(value_a, value_b, fp_format)
    ELSE L_Mul(value_a, value_b, fp_format)

\* a failure cause of a MAC step on patterns: an operand, the product or the
\* sum classified infinity or NaN
FailureCause(algorithm, value_a, value_b, prod_t_1, fp_format) ==
    /\ IsBinary(value_a) /\ IsBinary(value_b) /\ IsBinary(prod_t_1)
    /\ \/ get_flag(value_a, fp_format) \in BadFlags
       \/ get_flag(value_b, fp_format) \in BadFlags
       \/ get_flag(ProductOf(algorithm, value_a, value_b, fp_format), fp_format) \in BadFlags
       \/ get_flag(fp_bin_adder(prod_t_1, ProductOf(algorithm, value_a, value_b, fp_format),
                                fp_format), fp_format) \in BadFlags

(* C2: every failure cause of a MAC step (an operand, the product or the   *)
(* post-addition sum classified infinity/NaN) makes the step return the    *)
(* one marker 'pass', for each of the three MAC units.                     *)
C2_AllCausesReturnPass ==
    [][FailureCause(alg, a_bin', b_bin', dot_product, format) => dot_product' = PASS]_vars

(* C3: each matrix multiply returns normally (never raises) a rows x cols  *)
(* matrix whose every cell is a decoded number or the marker 'pass', also  *)
(* when entries encode to infinity or NaN.                                 *)
C3_MatrixAlwaysReturns ==
    /\ pc # "raised"
    /\ pc = "returned" =>
         /\ Len(C) = Len(A)
         /\ \A r \in 1..Len(C) :
              /\ Len(C[r]) = Len(B[1])
              /\ \A c \in 1..Len(C[r]) : C[r][c].kind \in {"fin", "inf", "nan", "pass"}

(* C4: decode/encode round trip.  Re-encoding the decoded value of a bit   *)
(* pattern returns the pattern itself for every pattern that is not NaN    *)
(* (both zeros, both infinities, every denormal and normal), and the       *)
(* canonical NaN pattern for every NaN pattern.                            *)
C4_RoundTrip ==
    pc = "reencoded" =>
        IF get_flag(a_bin, format) = "NaN" THEN out = CanonicalNaN(format)
        ELSE out = a_bin

(* C5 as claimed: for all finite patterns a and b the exact multiplier     *)
(* returns a pattern that decodes to a value within one unit in the last   *)
(* place of the nearest representable value to decode(a) * decode(b).      *)
C5_MultiplyWithinUlp ==
    (pc = "multiply" /\ IsFinitePattern(a_bin, format) /\ IsFinitePattern(b_bin, format)) =>
        DecodesWithinOneUlp(out,
            ExactProduct(decode(ParseBin(a_bin), format).value,
                         decode(ParseBin(b_bin), format).value), format)

\* the exact product does not exceed the largest finite magnitude
ProductInRange(a, b, fp_format) ==
    ~MagLess(MaxFiniteValue(fp_format),
             ExactProduct(decode(ParseBin(a), fp_format).value,
                          decode(ParseBin(b), fp_format).value))

(* C5 amended: for all finite patterns a and b whose exact product does    *)
(* not exceed the largest finite magnitude of the format, the exact        *)
(* multiplier returns a finite pattern that decodes to a value within one  *)
(* unit in the last place of the nearest representable value to the        *)
(* product.                                                                *)
C5_MultiplyWithinUlpInRange ==
    (/\ pc = "multiply"
     /\ IsFinitePattern(a_bin, format) /\ IsFinitePattern(b_bin, format)
     /\ ProductInRange(a_bin, b_bin, format)) =>
        DecodesWithinOneUlp(out,
            ExactProduct(decode(ParseBin(a_bin), format).value,
                         decode(ParseBin(b_bin), format).value), format)

\* a product of two normal operands that is not representable was rounded
C5_Witness ==
    /\ pc = "multiply"
    /\ get_flag(a_bin, format) = "normalized" /\ get_flag(b_bin, format) = "normalized"
    /\ ProductInRange(a_bin, b_bin, format)
    /\ get_flag(out, format) = "normalized"
    /\ decode(ParseBin(out), format).value #
         ExactProduct(decode(ParseBin(a_bin), format).value,
                      decode(ParseBin(b_bin), format).value)

(* C6: encode rounds to nearest.  For every finite nonzero float of the    *)
(* grid (denormal range, normal range and below the smallest denormal)     *)
(* whose magnitude does not overflow, encode returns a pattern whose       *)
(* decoded value is a representable value nearest to the float.            *)
C6_EncodeRoundsToNearest ==
    (/\ pc = "encoded"
     /\ x.kind = "fin" /\ x.m # 0
     /\ ~MagLess(MaxFiniteValue(format), x)) =>
        DecodesToNearest(out, x, format)

(* C7 as claimed: fp_bin_adder(a, all-zero pattern) returns a for every    *)
(* pattern a that is not infinity or NaN, zeros of either sign included.   *)
C7_AddZeroIdentity ==
    (pc = "fp_add" /\ b_bin = ZeroBits(format) /\ IsFinitePattern(a_bin, format)) =>
        out = a_bin

(* C7 amended: fp_bin_adder(a, all-zero pattern) returns a for every       *)
(* pattern a that is not infinity, NaN or the negative zero; for the       *)
(* negative zero it returns the all-zero pattern.                          *)
C7_AddZeroIdentityAmended ==
    (pc = "fp_add" /\ b_bin = ZeroBits(format) /\ IsFinitePattern(a_bin, format)) =>
        out = IF a_bin = NegZeroBits(format) THEN ZeroBits(format) ELSE a_bin

\* a negative denormal was added to the all-zero pattern
C7_Witness ==
    /\ pc = "fp_add" /\ b_bin = ZeroBits(format)
    /\ get_flag(a_bin, format) = "denormalized" /\ a_bin[1] = "1"
    /\ out = a_bin

(* C8: fp_add special values.  A NaN operand gives a NaN-classified        *)
(* result; infinities of opposite sign give a NaN-classified result;       *)
(* infinities of equal sign give that infinity; an infinity and a finite   *)
(* operand give that infinity with its sign.                               *)
C8_AddSpecialValues ==
    pc = "fp_add" =>
        LET flag_a == get_flag(a_bin, format)
            flag_b == get_flag(b_bin, format)
            inf_of(s) == Pack(IF s = "1" THEN 1 ELSE 0, ExpAllOnes(format), 0, format)
        IN  /\ (flag_a = "NaN" \/ flag_b = "NaN") => get_flag(out, format) = "NaN"
            /\ (flag_a = "infinity" /\ flag_b = "infinity" /\ a_bin[1] # b_bin[1]) =>
                   get_flag(out, format) = "NaN"
            /\ (flag_a = "infinity" /\ flag_b = "infinity" /\ a_bin[1] = b_bin[1]) =>
                   out = inf_of(a_bin[1])
            /\ (flag_a = "infinity" /\ flag_b \notin BadFlags) => out = inf_of(a_bin[1])
            /\ (flag_b = "infinity" /\ flag_a \notin BadFlags) => out = inf_of(b_bin[1])

\* -inf was added to +inf
C8_Witness ==
    /\ pc = "fp_add"
    /\ a_bin = Pack(0, ExpAllOnes(format), 0, format)
    /\ b_bin = Pack(1, ExpAllOnes(format), 0, format)
    /\ get_flag(out, format) = "NaN"

(* C9: whenever fp_add produces NaN (a NaN operand, or two infinities of   *)
(* opposite sign) the pattern returned is the canonical NaN (sign 0,       *)
(* exponent all ones, only the top mantissa bit set), the pattern encode   *)
(* returns for a NaN input.                                                *)
C9_AddNaNCanonical ==
    (/\ pc = "fp_add"
     /\ \/ get_flag(a_bin, format) = "NaN"
        \/ get_flag(b_bin, format) = "NaN"
        \/ /\ get_flag(a_bin, format) = "infinity"
           /\ get_flag(b_bin, format) = "infinity"
           /\ a_bin[1] # b_bin[1]) =>
        (out = CanonicalNaN(format) /\ out = encode(NaN, format))

\* an entry that encodes to an infinity
EncodesToInfinity(v, fp_format) == get_flag(encode(v, fp_format), fp_format) = "infinity"

RECURSIVE ChainResult(_, _, _, _, _, _, _)
\* the accumulator after the MAC steps kk..inner-1 of cell (r, c)
ChainResult(algorithm, MA, MB, r, c, kk, acc) ==
    IF kk > Len(MB) \/ acc = ValueError THEN acc
    ELSE ChainResult(algorithm, MA, MB, r, c, kk + 1,
            mac_step(algorithm, encode(MA[r][kk], format), encode(MB[kk][c], format),
                     acc, format))

\* what the cell (r, c) of the product of MA and MB holds
CellOf(algorithm, MA, MB, r, c) ==
    LET acc == ChainResult(algorithm, MA, MB, r, c, 1, ZeroBits(format))
    IN  IF acc = PASS THEN PassCell
        ELSE IF IsBinary(acc) THEN decode(ParseBin(acc), format).value
        ELSE NoFloat

(* C10: failure containment.  If an entry A[i][k] or B[k][j] encodes to    *)
(* infinity, the matrix multiply returns, every cell whose reduction reads *)
(* that entry is 'pass', and every cell that reads neither that row of A   *)
(* nor that column of B holds the value it has when the offending entry is *)
(* finite; for each of the three matrix multiplies.                        *)
C10_FailureContainment ==
    LET rows == Len(A)
        inner == Len(B)
        cols == Len(B[1])
        offends_a(r) == \E kk \in 1..inner : EncodesToInfinity(A[r][kk], format)
        offends_b(c) == \E kk \in 1..inner : EncodesToInfinity(B[kk][c], format)
        offending == (\E r \in 1..rows : offends_a(r)) \/ (\E c \in 1..cols : offends_b(c))
        \* the inputs with the offending entry finite
        A_finite == [r \in 1..rows |-> [kk \in 1..inner |->
                       IF EncodesToInfinity(A[r][kk], format)
                       THEN BaseMatrix(rows, inner)[r][kk] ELSE A[r][kk]]]
        B_finite == [kk \in 1..inner |-> [c \in 1..cols |->
                       IF EncodesToInfinity(B[kk][c], format)
                       THEN BaseMatrix(inner, cols)[kk][c] ELSE B[kk][c]]]
    IN  offending =>
          /\ pc # "raised"
          /\ pc = "returned" =>
               \A r \in 1..rows, c \in 1..cols :
                  IF offends_a(r) \/ offends_b(c) THEN C[r][c] = PassCell
                  ELSE C[r][c] = CellOf(alg, A_finite, B_finite, r, c)

(***************************************************************************)
(* End-to-end vectors of format e3m4 (test.py, test_data_in)               *)
(***************************************************************************)
\* the floats 0.25 and -1.0
Quarter == Fin(FALSE, 1, -2)
MinusOne == Fin(TRUE, 1, 0)

DecodedValue(bits, fp_format) == decode(ParseBin(bits), fp_format).value

C13_OneByOneProduct ==
    (pc = "returned" /\ alg = "exact" /\ A = <<<<Quarter>>>> /\ B = <<<<Quarter>>>>)
        => C = <<<<Fin(FALSE, 1, -4)>>>>

C13_Witness ==
    /\ pc = "returned" /\ alg = "exact" /\ format = "e2m5"
    /\ A = <<<<Quarter>>>> /\ B = <<<<Quarter>>>>
    /\ C[1][1] = Fin(FALSE, 1, -4)

(***************************************************************************)
(* Wire format                                                             *)
(***************************************************************************)
\* a string of exactly 1 + exponent_bits + mantissa_bits characters '0'/'1'
WireFormat(bits, fp_format) ==
    LET p == get_format_params(fp_format)
    IN  Len(bits) = 1 + p.e_bits + p.m_bits /\ IsBinary(bits)

\* C14: encode (of the finite, infinite and NaN floats the patterns decode
\* to, of the floats of the grid and of the unrounded products of the three
\* multipliers), fp_bin_adder of any two patterns and the three multipliers
\* of any two finite patterns return a string of exactly 8 characters '0'/'1'
C14_WireFormat ==
    /\ pc = "operands" => WireFormat(encode(DecodedValue(a_bin, format), format), format)
    /\ (pc = "operands" /\ a_bin = ZeroBits(format) /\ b_bin = ZeroBits(format)) =>
            \A v \in GridValues(format) : WireFormat(encode(v, format), format)
    /\ pc = "fp_add" => WireFormat(out, format)
    /\ (pc \in {"multiply", "L_Mul", "FASA"}
            /\ IsFinitePattern(a_bin, format) /\ IsFinitePattern(b_bin, format))
          => WireFormat(out, format)

\* an addition that overflows: largest finite + largest finite
C14_Witness ==
    /\ pc = "fp_add"
    /\ a_bin = Pack(0, ExpAllOnes(format) - 1, MantAllOnes(format), format)
    /\ b_bin = a_bin
    /\ out = Pack(0, ExpAllOnes(format), 0, format)
    /\ WireFormat(out, format)

(***************************************************************************)
(* Classification                                                          *)
(***************************************************************************)
\* the flag read off the characters of the exponent and mantissa fields
FieldFlag(bits, fp_format) ==
    LET e_bits == FORMATS[fp_format][1]
        exp == Slice(bits, 1, 1 + e_bits)
        mant == Slice(bits, 1 + e_bits, Len(bits))
        all(s, c) == \A n \in 1..Len(s) : s[n] = c
    IN  IF all(exp, "0") THEN (IF all(mant, "0") THEN "zero" ELSE "denormalized")
        ELSE IF all(exp, "1") THEN (IF all(mant, "0") THEN "infinity" ELSE "NaN")
        ELSE "normalized"

\* the pattern with the sign bit inverted
FlipSign(bits) == <<(IF bits[1] = "0" THEN "1" ELSE "0")>> \o Tail(bits)

\* C15: in every format decode (and get_flag, which returns decode's flag)
\* classifies every 8-bit pattern from its exponent and mantissa fields alone,
\* and the pattern with the other sign bit gets the same flag
C15_DecodeClassification ==
    pc = "decoded" =>
        /\ decode(ParseBin(a_bin), format).flag = FieldFlag(a_bin, format)
        /\ get_flag(a_bin, format) = FieldFlag(a_bin, format)
        /\ get_flag(FlipSign(a_bin), format) = get_flag(a_bin, format)

\* a negative NaN pattern of e4m3 has been decoded
C15_Witness ==
    /\ pc = "decoded" /\ format = "e4m3"
    /\ a_bin = FormatBin(249, 8)
    /\ get_flag(a_bin, format) = "NaN"
    /\ x = NaN

(***************************************************************************)
(* Integer adder                                                           *)
(***************************************************************************)
MaxLen(a, b) == IF Len(a) < Len(b) THEN Len(b) ELSE Len(a)

C17_IntAdderCommutes ==
    pc = "int_add" => out = int_bin_adder(b_bin, a_bin)

\* operands of different lengths whose sum carries out of the longer one
C17_Witness ==
    /\ pc = "int_add"
    /\ a_bin = <<"1">> /\ b_bin = <<"1", "1", "1">>
    /\ out = <<"1", "0", "0", "0">>
    /\ int_bin_adder(b_bin, a_bin) = out

(***************************************************************************)
(* Sign of the products                                                    *)
(***************************************************************************)
\* the XOR of the sign characters of two patterns
SignXor(a, b) == IF a[1] = b[1] THEN "0" ELSE "1"

\* C18: for multiply, L_Mul and FASA with binary output and all finite operand
\* patterns (zeros of either sign included) the sign bit of the returned
\* pattern is the XOR of the operands' sign bits
C18_SignXor ==
    (pc \in {"multiply", "L_Mul", "FASA"}
        /\ IsFinitePattern(a_bin, format) /\ IsFinitePattern(b_bin, format))
      => out[1] = SignXor(a_bin, b_bin)

(***************************************************************************)
(* Accumulation order                                                      *)
(***************************************************************************)
RECURSIVE LeftFold(_, _, _, _, _)
\* the left fold of the MAC step over the first n entries of a row of A and
\* a column of B, in ascending order, from the all-zero accumulator
LeftFold(algorithm, row, col, n, fp_format) ==
    IF n = 0 THEN ZeroBits(fp_format)
    ELSE mac_step(algorithm, encode(row[n], fp_format), encode(col[n], fp_format),
                  LeftFold(algorithm, row, col, n - 1, fp_format), fp_format)

\* what is stored for a chain that ended in acc
CellValue(acc, fp_format) ==
    IF acc = PASS THEN PassCell ELSE DecodedValue(acc, fp_format)

\* C19: for each of the matrix multiplies, the accumulator after k steps of
\* the chain of cell (i, j) is the left fold of the MAC step over entries
\* 0..k-1 of row i of A and column j of B, in ascending order from the
\* all-zero accumulator; every stored cell holds the result of the fold over
\* all `inner` entries of its row and column, and the cells not yet reached
\* hold the initial 0
C19_AccumulationOrder ==
    LET inner == Len(B)
        Row(r) == A[r]
        Col(c) == [kk \in 1..inner |-> B[kk][c]]
        Stored(r, c) == pc = "returned" \/ r - 1 < i \/ (r - 1 = i /\ c - 1 < j)
    IN  /\ pc # "returned" =>
              /\ k <= inner
              /\ dot_product = LeftFold(alg, Row(i + 1), Col(j + 1), k, format)
        /\ \A r \in 1..Len(A), c \in 1..Len(B[1]) :
              IF Stored(r, c)
              THEN C[r][c] = CellValue(LeftFold(alg, Row(r), Col(c), inner, format), format)
              ELSE C[r][c] = Fin(FALSE, 0, 0)

\* a 2x2 product over two entries has returned with a number in its last cell
C19_Witness ==
    /\ pc = "returned" /\ alg = "fasa"
    /\ Len(A) = 2 /\ Len(B) = 2 /\ Len(B[1]) = 2
    /\ C[2][2].kind = "fin"
    /\ C[2][2] = CellValue(LeftFold(alg, A[2], <<B[1][2], B[2][2]>>, 2, format), format)
    /\ C[2][2] # CellValue(LeftFold(alg, A[2], <<B[1][2], B[2][2]>>, 1, format), format)

(***************************************************************************)
(* FASA as Mitchell's logarithmic product                                  *)
(***************************************************************************)
\* sign * (1 + fa + fb) * 2^(ea + eb) when fa + fb < 1 and
\* sign * (fa + fb) * 2^(ea + eb + 1) otherwise, for the patterns a and b with
\* mantissa fractions fa, fb and unbiased exponents ea, eb
Mitchell(a, b, fp_format) ==
    LET m_bits == FORMATS[fp_format][2]
        da == decode(ParseBin(a), fp_format)
        db == decode(ParseBin(b), fp_format)
        \* the fractions as numerators over 2^m_bits
        fa == ParseBin(a) % Pow2(m_bits)
        fb == ParseBin(b) % Pow2(m_bits)
        neg == a[1] # b[1]
    IN  IF fa + fb < Pow2(m_bits)
        THEN Fin(neg, Pow2(m_bits) + fa + fb, da.E + db.E - m_bits)
        ELSE Fin(neg, fa + fb, da.E + db.E + 1 - m_bits)

\* C20: for normalized finite operands the real value FASA computes before
\* encoding is Mitchell's logarithmic product, with the XOR of the signs, and
\* the pattern FASA returns is the encoding of that value
C20_FasaIsMitchell ==
    (pc = "FASA" /\ get_flag(a_bin, format) = "normalized"
                 /\ get_flag(b_bin, format) = "normalized") =>
        /\ FASA_value(a_bin, b_bin, format) = Mitchell(a_bin, b_bin, format)
        /\ out = encode(Mitchell(a_bin, b_bin, format), format)

\* e3m4, -1.75 * 1.5: the fractions 0.75 and 0.5 carry into the exponent,
\* the value is -(1.25) * 2^1 = -2.5 and it is returned as 11000100
C20_Witness ==
    /\ pc = "FASA" /\ format = "e3m4"
    /\ a_bin = FormatBin(188, 8) /\ b_bin = FormatBin(56, 8)
    /\ FASA_value(a_bin, b_bin, format) = Fin(TRUE, 5, -1)
    /\ out = FormatBin(196, 8)

\* C21: whenever a MAC step of any of the three variants, on 8-bit operand and
\* accumulator patterns, returns a bit pattern rather than a failure marker,
\* the pattern is 8 bits long and classified zero, denormalized or normalized,
\* never infinity or NaN, so the cell stored from it is a finite number
C21_RunningStateFinite ==
    (pc = "mac_step" /\ IsBinary(out)) =>
        /\ Len(out) = 8
        /\ get_flag(out, format) \in {"zero", "denormalized", "normalized"}
        /\ CellValue(out, format).kind = "fin"

\* e4m3, exact MAC of 1.5 * 1.5 onto the accumulator 01110111 (240): the sum
\* stays below the overflow and a normalized pattern comes back
C21_Witness ==
    /\ pc = "mac_step" /\ format = "e4m3" /\ alg = "exact"
    /\ a_bin = FormatBin(60, 8) /\ b_bin = FormatBin(60, 8)
    /\ dot_product = FormatBin(119, 8)
    /\ IsBinary(out) /\ get_flag(out, format) = "normalized"

\* the widest gap, in binary places, between the leading bit of one finite
\* operand and the last bit of the other for which their sum is computed:
\* a representable value has at most 6 significant bits, so a sum of two
\* nonzero representable values further apart than this is not representable
MaxSpread == 29

Spread(u, v) ==
    LET tu == BitLength(u.m) + u.e
        tv == BitLength(v.m) + v.e
    IN  (IF tu > tv THEN tu ELSE tv) - (IF u.e < v.e THEN u.e ELSE v.e)

SignedNumerator(u, e0) == IF u.neg THEN -(u.m * Pow2(u.e - e0)) ELSE u.m * Pow2(u.e - e0)

\* the real number u + v of two finite floats (NaN stands for a sum that
\* is too wide to be a value of any of the formats)
ExactSum(u, v) ==
    IF u.m = 0 THEN v
    ELSE IF v.m = 0 THEN u
    ELSE IF Spread(u, v) > MaxSpread THEN NaN
    ELSE LET e0 == IF u.e < v.e THEN u.e ELSE v.e
         IN  FinSigned(SignedNumerator(u, e0) + SignedNumerator(v, e0), e0)

\* v is the value of a zero, denormalized or normalized pattern of the format
Representable(v, fp_format) ==
    LET p == get_format_params(fp_format)
    IN  /\ v.kind = "fin"
        /\ v.m # 0 =>
              /\ BitLength(v.m) <= p.m_bits + 1
              /\ v.e >= 1 - p.bias - p.m_bits
              /\ FloorLog2(v) <= ExpAllOnes(fp_format) - 1 - p.bias

\* the floats u and v are the same real number (0.0 and -0.0 are)
SameReal(u, v) ==
    /\ u.kind = "fin" /\ v.kind = "fin"
    /\ (u.m = 0 /\ v.m = 0) \/ u = v

\* C22: fp_add is exact when no rounding is needed: for finite operands (zero,
\* denormal or normal, any signs) whose exact real sum is itself the value of a
\* zero, denormal or normal pattern of the format, the pattern fp_bin_adder
\* returns decodes to that sum
C22_AddExactWhenRepresentable ==
    (/\ pc = "fp_add"
     /\ IsFinitePattern(a_bin, format) /\ IsFinitePattern(b_bin, format)
     /\ Representable(ExactSum(DecodedValue(a_bin, format),
                               DecodedValue(b_bin, format)), format)) =>
        SameReal(DecodedValue(out, format),
                 ExactSum(DecodedValue(a_bin, format), DecodedValue(b_bin, format)))

ZeroPattern(bits, fp_format) == get_flag(bits, fp_format) = "zero"

\* C23: zero annihilates a product: for each of multiply, L_Mul and FASA with
\* binary output, when either operand is a zero pattern (+0 or -0) and the
\* other is any finite pattern, the returned pattern is classified zero
C23_ZeroAnnihilates ==
    (/\ pc \in {"multiply", "L_Mul", "FASA"}
     /\ IsFinitePattern(a_bin, format) /\ IsFinitePattern(b_bin, format)
     /\ ZeroPattern(a_bin, format) \/ ZeroPattern(b_bin, format)) =>
        ZeroPattern(out, format)

\* C24: fp_add is commutative at the bit level: for all pairs of 8-bit
\* patterns (zeros of either sign, denormals, normals, infinities and NaNs),
\* fp_bin_adder(a, b) and fp_bin_adder(b, a) are the identical bit pattern
C24_AddCommutes ==
    pc = "fp_add" => out = fp_bin_adder(b_bin, a_bin, format)

\* |r| <= |hi| + |lo| for finite floats with |r| >= |hi| >= |lo|, computed as
\* |r| - |hi| <= |lo|. When r and hi are representable values further apart
\* than MaxSpread, |r| - |hi| exceeds |hi|, and so |lo|
AtMostSum(r, hi, lo) ==
    IF hi.m = 0 THEN r.m = 0
    ELSE IF Spread(r, hi) > MaxSpread THEN FALSE
    ELSE ~MagLess(lo, ExactSum([r EXCEPT !.neg = FALSE], [hi EXCEPT !.neg = TRUE]))

\* the operand of larger magnitude, and the other one
LargerOf(u, v) == IF MagLess(u, v) THEN v ELSE u
SmallerOf(u, v) == IF MagLess(u, v) THEN u ELSE v

\* C25: same-sign addition never shrinks the accumulator: for finite operands
\* with equal sign bits the magnitude of the decoded result is at least the
\* larger operand magnitude (an infinite result counts as larger) and, when
\* the result is finite, at most the sum of the two magnitudes
C25_SameSignNeverShrinks ==
    (/\ pc = "fp_add"
     /\ IsFinitePattern(a_bin, format) /\ IsFinitePattern(b_bin, format)
     /\ a_bin[1] = b_bin[1]) =>
        /\ DecodedValue(out, format).kind \in {"fin", "inf"}
        /\ DecodedValue(out, format).kind = "fin" =>
              /\ ~MagLess(DecodedValue(out, format),
                          LargerOf(DecodedValue(a_bin, format), DecodedValue(b_bin, format)))
              /\ AtMostSum(DecodedValue(out, format),
                           LargerOf(DecodedValue(a_bin, format), DecodedValue(b_bin, format)),
                           SmallerOf(DecodedValue(a_bin, format), DecodedValue(b_bin, format)))
====
